---- MODULE Spec2Model ----
(***************************************************************************)
(* A model of the bevy-vello LottiePlayer (src/src/lottie_player.rs): the  *)
(* controller component, its status API and the four chained PostUpdate    *)
(* systems apply_player_inputs, advance_playheads, run_transitions and     *)
(* set_state.                                                              *)
(*                                                                         *)
(* Numbers.  Frame positions, intermissions and the playhead are f32 in    *)
(* the source.  The model holds an f32 x as the integer x * 2^24, which is *)
(* exact for every value the scenes reach (multiples of 2^-24 below 2^7),  *)
(* and rounds the result of each addition and subtraction to the nearest  *)
(* f32 as the hardware does, so that `x.prev()` is the f32 just below x:   *)
(* prev(3.0) is 3 - 2^-22.  Seconds, speeds and frame rates are whole      *)
(* numbers in every scene and are kept as such; their products are exact   *)
(* in f32.                                                                 *)
(* Option<T> is a sequence of length 0 (None) or 1 (Some).                 *)
(*                                                                         *)
(* Time.  first_frame: Option<Instant> is kept as the age of the instant,  *)
(* which is what `elapsed()` reads: Instant::now() is age 0 and every tick *)
(* ages the stored instants by the wall time that passed.                  *)
(***************************************************************************)
EXTENDS Integers, Sequences, FiniteSets, TLC

\* ------------------------------------------------------------------ bounds
\* Ceiling of the age of a first_frame timestamp, in seconds.
MaxTime == 2
\* Ceiling of rendered_frames reached by advancing.
MaxFrames == 6

\* --------------------------------------------------------- program constants
\* 1.0 as the model holds it: an f32 has 24 significant bits, so the f32s
\* of [0.5, 1) are 2^-24 apart and every f32 x of the model is x * 2^24.
One == 16777216

\* f32::MIN and f32::MAX: below / above every frame of the model.
F32_MIN == -1677721600
F32_MAX == 1677721600

\* The f32 that holds the whole number n.
F32(n) == n * One

None == << >>
Some(x) == << x >>
IsSome(o) == Len(o) = 1
Unwrap(o) == o[1]

Min(a, b) == IF a <= b THEN a ELSE b
Max(a, b) == IF a >= b THEN a ELSE b
Abs(a) == IF a < 0 THEN -a ELSE a

\* f32::trunc of a quotient: rounds toward zero.
TruncDiv(a, b) ==
    LET q == Abs(a) \div Abs(b)
    IN  IF (a < 0) = (b < 0) THEN q ELSE -q

\* f32 `%`: the remainder has the sign of the dividend.
Rem(a, b) == a - TruncDiv(a, b) * b

\* The distance between neighbouring f32s of the binade of m >= 0: 2^-23 in
\* [1, 2), 2^-22 in [2, 4), ...; below 1.0 every value the model holds is an f32.
RECURSIVE Ulp(_)
Ulp(m) == IF m < One THEN 1 ELSE 2 * Ulp(m \div 2)

\* The f32 an arithmetic result is rounded to: the nearest one, ties to the
\* even significand.
RoundF32(x) ==
    LET m == Abs(x)
        u == Ulp(m)
        q == m \div u
        r == m % u
        n == IF 2 * r < u \/ (2 * r = u /\ q % 2 = 0) THEN q * u ELSE (q + 1) * u
    IN  IF x < 0 THEN -n ELSE n

\* Ulps::prev: the f32 just below x.  prev(0.0) is -0.0, which compares equal
\* to 0.0.  The code takes prev of whole frames only; below 0.5 the f32s are
\* closer than the model's 2^-24.
Prev(x) ==
    IF x = 0 THEN 0
    ELSE IF x > 0 THEN x - Ulp(x - 1)
    ELSE x - Ulp(-x)

\* --------------------------------------------------------- PlaybackSettings
Normal == "Normal"
Reverse == "Reverse"

DefaultSettings ==
    [ autoplay     |-> TRUE,
      direction    |-> Normal,
      speed        |-> 1,
      intermission |-> 0,
      segments     |-> [start |-> F32_MIN, end |-> F32_MAX] ]

Settings(autoplay, direction, speed, intermission, s, e) ==
    [ autoplay     |-> autoplay,
      direction    |-> direction,
      speed        |-> speed,
      intermission |-> intermission,
      segments     |-> [start |-> s, end |-> e] ]

\* ------------------------------------------------------- AnimationTransition
OnAfter(state, secs) == [kind |-> "OnAfter", state |-> state, secs |-> secs]
OnComplete(state)    == [kind |-> "OnComplete", state |-> state, secs |-> 0]
OnMouseEnter(state)  == [kind |-> "OnMouseEnter", state |-> state, secs |-> 0]
OnMouseClick(state)  == [kind |-> "OnMouseClick", state |-> state, secs |-> 0]
OnMouseLeave(state)  == [kind |-> "OnMouseLeave", state |-> state, secs |-> 0]
OnShow(state)        == [kind |-> "OnShow", state |-> state, secs |-> 0]

\* ----------------------------------------------------------- AnimationState
\* AnimationState::new(id) followed by the builder calls.
AnimationState(id, asset, theme, playback_settings, transitions, on_transition, on_start) ==
    [ id                           |-> id,
      asset                        |-> asset,
      theme                        |-> theme,
      playback_settings            |-> playback_settings,
      transitions                  |-> transitions,
      reset_playhead_on_transition |-> on_transition,
      reset_playhead_on_start      |-> on_start ]

\* LottiePlayer::with_state: states.insert(state.id, state).
WithState(states, st) ==
    [ k \in DOMAIN states \cup {st.id} |-> IF k = st.id THEN st ELSE states[k] ]

NoStates == [ k \in {} |-> None ]

\* LottiePlayer::new(initial_state).
NewPlayer(initial_state) ==
    [ initial_state         |-> initial_state,
      current_state         |-> initial_state,
      next_state            |-> Some(initial_state),
      pending_seek_frame    |-> None,
      pending_intermission  |-> None,
      pending_speed         |-> None,
      started               |-> FALSE,
      playing               |-> FALSE,
      stopped               |-> FALSE ]

\* ------------------------------------------------------------------ assets
Assets == {1, 2}

\* The composition of each asset (read-only to this code): frame range and
\* frame rate.
Composition(a) ==
    CASE a = 1 -> [frames |-> [start |-> F32(0), end |-> F32(3)], frame_rate |-> 1]
      [] a = 2 -> [frames |-> [start |-> F32(1), end |-> F32(3)], frame_rate |-> 2]

\* The mutable part of VelloAssetData::Lottie as the asset loader delivers it.
LoadedAsset ==
    [ first_frame     |-> None,
      rendered_frames |-> 0 ]

\* Assets in Assets<VelloAsset> when the app starts; asset 2 is still loading.
InitiallyLoaded == {1}

\* --------------------------------------------------------------- the scenes
\* idle --OnMouseEnter--> hover --OnMouseLeave--> idle, all defaults.
HoverStates ==
    WithState(WithState(NoStates,
        AnimationState("idle", None, None, None,
                       << OnMouseEnter("hover") >>, FALSE, FALSE)),
        AnimationState("hover", None, None, None,
                       << OnMouseLeave("idle") >>, FALSE, FALSE))

\* A three-state machine: a direction flip (a -> b), a segment, an
\* intermission, an asset override that is still loading (c) and a reset flag.
MenuStates ==
    WithState(WithState(WithState(NoStates,
        AnimationState("a", None, None, None,
                       << OnMouseEnter("b"), OnAfter("c", 0) >>, FALSE, FALSE)),
        AnimationState("b", None, Some("dark"),
                       Some(Settings(TRUE, Reverse, 1, F32(1), F32_MIN, F32_MAX)),
                       << OnMouseClick("c"), OnComplete("a") >>, FALSE, FALSE)),
        AnimationState("c", Some(2), None,
                       Some(Settings(FALSE, Normal, 2, F32(0), F32(2), F32(4))),
                       << OnShow("a"), OnAfter("b", 1) >>, FALSE, TRUE))

\* Two states on a sub-range of the composition; "away" is entered by the
\* application only and resets the playhead when it is left.
ClipStates ==
    WithState(WithState(NoStates,
        AnimationState("clip", None, None,
                       Some(Settings(TRUE, Normal, 1, F32(0), F32(1), F32(4))),
                       << OnMouseLeave("away"), OnMouseClick("away") >>, FALSE, FALSE)),
        AnimationState("away", Some(2), None,
                       Some(Settings(TRUE, Normal, 1, F32(2), F32(3), F32(1))),
                       << OnComplete("clip") >>, TRUE, FALSE))

Scenes == {"hover", "menu", "raw", "pair"}

\* The entities of a scene, each a Handle<VelloAsset> with or without a
\* LottiePlayer and a PlaybackSettings component.
Ents(scn) == IF scn \in {"hover", "menu"} THEN {1} ELSE {1, 2}

\* The states registered with with_state, per player entity.
StatesOf(scn, e) ==
    CASE scn = "hover" -> HoverStates
      [] scn = "menu" -> MenuStates
      [] scn = "raw" -> HoverStates
      [] scn = "pair" -> IF e = 1 THEN ClipStates ELSE HoverStates

InitPlayer(scn, e) ==
    CASE scn = "hover" -> Some(NewPlayer("idle"))
      [] scn = "menu" -> Some(NewPlayer("a"))
      [] scn = "raw" -> IF e = 1 THEN None ELSE Some(NewPlayer("idle"))
      [] scn = "pair" -> IF e = 1 THEN Some(NewPlayer("clip")) ELSE Some(NewPlayer("idle"))

InitSettings(scn, e) ==
    IF scn = "raw" /\ e = 1 THEN None ELSE Some(DefaultSettings)

\* In "raw" an asset without a player shares the scene with a player on an
\* asset of its own; in "pair" two players show the same asset.
InitHandle(scn, e) == IF scn = "raw" /\ e = 2 THEN 2 ELSE 1

\* One API call of the application: the method, the entity whose player it is
\* called on, and the argument (0 when the method takes none).
Op(op, e, arg) == [op |-> op, e |-> e, arg |-> arg]

\* The API calls the application makes, in this order, each between two ticks
\* of its choice; "ghost" is a state id that was never registered.
Scripts(scn) ==
    CASE scn = "hover" ->
            { << Op("stop", 1, 0), Op("transition", 1, "hover"), Op("play", 1, 0) >>,
              << Op("pause", 1, 0), Op("toggle_play", 1, 0), Op("toggle_play", 1, 0) >>,
              << Op("stop", 1, 0), Op("seek", 1, F32(2)), Op("toggle_play", 1, 0) >>,
              << Op("seek", 1, F32(1)), Op("seek", 1, F32(1)) >>,
              << Op("set_intermission", 1, F32(2)), Op("seek", 1, F32(1)), Op("set_speed", 1, 2) >>,
              << Op("transition", 1, "ghost") >> }
      [] scn = "menu" ->
            { << Op("seek", 1, F32(0)), Op("seek", 1, F32(0)) >>,
              << Op("transition", 1, "c"), Op("reset", 1, 0) >>,
              << Op("play", 1, 0), Op("pause", 1, 0) >>,
              << Op("set_intermission", 1, F32(2)), Op("reset", 1, 0) >> }
      [] scn = "raw" ->
            { << Op("stop", 2, 0) >>,
              << Op("pause", 2, 0), Op("play", 2, 0) >> }
      [] scn = "pair" ->
            { << Op("transition", 1, "away"), Op("seek", 1, F32(2)) >>,
              << Op("seek", 1, F32(2)), Op("seek", 1, F32(2)) >> }

\* Query iteration orders: every permutation of the scene's entities.
Orders(scn) ==
    IF Ents(scn) = {1} THEN { << 1 >> } ELSE { << 1, 2 >>, << 2, 1 >> }

\* ------------------------------------------------------------------- state
VARIABLES
    scn,        \* the scene (which entities, players and states exist)
    order,      \* the iteration order of the systems' queries
    players,    \* entity -> Option<LottiePlayer> (without the states map)
    settings,   \* entity -> Option<PlaybackSettings>
    handles,    \* entity -> Handle<VelloAsset>
    themes,     \* entity -> Option<Theme>
    assets,     \* asset id -> Option<VelloAsset>: None while not loaded
    hovered,    \* run_transitions' Local<bool>
    pc,         \* "api" between ticks, else the system that runs next
    dt,         \* Time::delta_seconds() of the running tick
    view,       \* whether the single window and 2d camera were found
    inside,     \* entity -> the pointer-inside test of the running tick
    pressed,    \* buttons.just_pressed(MouseButton::Left)
    script,     \* the API calls the application has yet to make
    sought,     \* history: entity -> Some(f) while its playhead is as seek(f) left it
    fresh,      \* history: no tick has ended and no API call was made yet
    deferred,   \* history: entity -> Some(s) while the request set_state re-queued is outstanding
    asked,      \* history: entity -> Some(s) when transition/reset asked for s since the last tick
    entered,    \* history: entity -> the pointer was inside it since its OnMouseLeave last fired
    fatal       \* "none", or the panic that ended the app

vars == << scn, order, players, settings, handles, themes, assets, hovered,
           pc, dt, view, inside, pressed, script, sought, fresh, deferred, asked,
           entered, fatal >>

\* What the systems read and write, passed from entity to entity; `ret` is set
\* when a system has returned before the end of its loop.
World ==
    [ players  |-> players,
      settings |-> settings,
      handles  |-> handles,
      themes   |-> themes,
      assets   |-> assets,
      hovered  |-> hovered,
      fatal    |-> fatal,
      ret      |-> FALSE ]

Panic(w, msg) == [w EXCEPT !.fatal = msg, !.ret = TRUE]

\* ------------------------------------------------------ apply_player_inputs
\* loops_completed of the intermission change.
IntermissionLoops(rendered_frames, length, old) ==
    IF rendered_frames > length + old
    THEN TruncDiv(rendered_frames, length + old)
    ELSE IF rendered_frames > length THEN 1 ELSE 0

InIntermission(rendered_frames, length, old) ==
    LET loops_completed == IntermissionLoops(rendered_frames, length, old)
    IN  /\ rendered_frames > length
        /\ rendered_frames >= loops_completed * length
        /\ rendered_frames < loops_completed * length + old

\* Mutant of IntermissionFrames: the shift is not scaled by the loops completed.
IntermissionFramesOneLoop(rendered_frames, comp, old, intermission) ==
    LET length == comp.frames.end - comp.frames.start
        loops_completed == IntermissionLoops(rendered_frames, length, old)
    IN  IF InIntermission(rendered_frames, length, old)
        THEN Prev(loops_completed * (length + intermission))
        ELSE Max(RoundF32(rendered_frames + (intermission - old)), 0)

\* rendered_frames after `pending_intermission.take()` gave `intermission`.
IntermissionFrames(rendered_frames, comp, old, intermission) ==
    LET length == comp.frames.end - comp.frames.start
        loops_completed == IntermissionLoops(rendered_frames, length, old)
    IN  IF InIntermission(rendered_frames, length, old)
        THEN Prev(loops_completed * (length + intermission))
        ELSE Max(RoundF32(rendered_frames + (intermission - old) * loops_completed), 0)

SeekStart(ps, comp) == Max(ps.segments.start, comp.frames.start)
SeekEnd(ps, comp) == Min(ps.segments.end, comp.frames.end)

\* f32::clamp panics when min > max.
ClampPanics(ps, comp) == SeekStart(ps, comp) > Prev(SeekEnd(ps, comp))

Clamp(x, lo, hi) == IF x < lo THEN lo ELSE IF x > hi THEN hi ELSE x

\* The frame a seek lands on inside the loop.
SeekValue(frame, ps, comp) ==
    LET bounded_frame == Clamp(frame, SeekStart(ps, comp), Prev(SeekEnd(ps, comp)))
    IN  IF ps.direction = Normal THEN bounded_frame
        ELSE RoundF32(SeekEnd(ps, comp) - bounded_frame)

SeekLength(ps, comp) == SeekEnd(ps, comp) - SeekStart(ps, comp) + ps.intermission

\* rendered_frames after `pending_seek_frame.take()` gave `frame`.
SeekFrames(rendered_frames, frame, ps, comp) ==
    LET length == SeekLength(ps, comp)
        loops_completed == TruncDiv(rendered_frames, length)
    IN  RoundF32(loops_completed * length + SeekValue(frame, ps, comp))

\* Mutant of ApplyInputsOne: the pending seek is applied before the pending
\* intermission.
ApplyInputsOneSeekFirst(w, e) ==
    IF ~IsSome(w.players[e]) \/ ~IsSome(w.settings[e]) THEN w
    ELSE IF ~IsSome(w.assets[w.handles[e]]) THEN w
    ELSE
    LET p    == Unwrap(w.players[e])
        ps   == Unwrap(w.settings[e])
        h    == w.handles[e]
        a    == Unwrap(w.assets[h])
        comp == Composition(h)
        seek == IsSome(p.pending_seek_frame)
        bad  == seek /\ ClampPanics(ps, comp)
        rf1  == IF seek /\ ~bad
                THEN SeekFrames(a.rendered_frames, Unwrap(p.pending_seek_frame), ps, comp)
                ELSE a.rendered_frames
        rf2  == IF IsSome(p.pending_intermission) /\ ~bad
                THEN IntermissionFrames(rf1, comp, ps.intermission,
                                        Unwrap(p.pending_intermission))
                ELSE rf1
        ps1  == IF IsSome(p.pending_intermission) /\ ~bad
                THEN [ps EXCEPT !.intermission = Unwrap(p.pending_intermission)]
                ELSE ps
        ps2  == IF IsSome(p.pending_speed) /\ ~bad
                THEN [ps1 EXCEPT !.speed = Unwrap(p.pending_speed)]
                ELSE ps1
        p2   == [p EXCEPT !.pending_intermission = IF bad THEN @ ELSE None,
                          !.pending_seek_frame = None,
                          !.pending_speed = IF bad THEN @ ELSE None]
        w2   == [w EXCEPT !.players[e] = Some(p2),
                          !.settings[e] = Some(ps2),
                          !.assets[h] = Some([a EXCEPT !.rendered_frames = rf2])]
    IN  IF bad THEN Panic(w2, "clamp: min > max") ELSE w2

\* One iteration of the loop of apply_player_inputs.
ApplyInputsOne(w, e) ==
    IF ~IsSome(w.players[e]) \/ ~IsSome(w.settings[e]) THEN w
    ELSE IF ~IsSome(w.assets[w.handles[e]]) THEN w
    ELSE
    LET p    == Unwrap(w.players[e])
        ps   == Unwrap(w.settings[e])
        h    == w.handles[e]
        a    == Unwrap(w.assets[h])
        comp == Composition(h)
        rf1  == IF IsSome(p.pending_intermission)
                THEN IntermissionFrames(a.rendered_frames, comp, ps.intermission,
                                        Unwrap(p.pending_intermission))
                ELSE a.rendered_frames
        ps1  == IF IsSome(p.pending_intermission)
                THEN [ps EXCEPT !.intermission = Unwrap(p.pending_intermission)]
                ELSE ps
        seek == IsSome(p.pending_seek_frame)
        bad  == seek /\ ClampPanics(ps1, comp)
        rf2  == IF seek /\ ~bad
                THEN SeekFrames(rf1, Unwrap(p.pending_seek_frame), ps1, comp)
                ELSE rf1
        ps2  == IF IsSome(p.pending_speed) /\ ~bad
                THEN [ps1 EXCEPT !.speed = Unwrap(p.pending_speed)]
                ELSE ps1
        p2   == [p EXCEPT !.pending_intermission = None,
                          !.pending_seek_frame = None,
                          !.pending_speed = IF bad THEN @ ELSE None]
        w2   == [w EXCEPT !.players[e] = Some(p2),
                          !.settings[e] = Some(ps2),
                          !.assets[h] = Some([a EXCEPT !.rendered_frames = rf2])]
    IN  IF bad THEN Panic(w2, "clamp: min > max") ELSE w2

RECURSIVE ApplyInputsLoop(_, _)
ApplyInputsLoop(w, es) ==
    IF es = << >> \/ w.ret THEN w
    ELSE ApplyInputsLoop(ApplyInputsOne(w, Head(es)), Tail(es))

\* -------------------------------------------------------- advance_playheads
\* Mutant of AdvanceOne: autoplay does not arm `playing`.
AdvanceOneNoAutoplay(w, e, d) ==
    IF ~IsSome(w.assets[w.handles[e]]) THEN w
    ELSE
    LET h  == w.handles[e]
        a  == Unwrap(w.assets[h])
        ps == IF IsSome(w.settings[e]) THEN Unwrap(w.settings[e]) ELSE DefaultSettings
        elapsed_frames == F32(d * ps.speed * Composition(h).frame_rate)
        moved == [a EXCEPT !.rendered_frames = RoundF32(@ + elapsed_frames)]
    IN  IF ~IsSome(w.players[e])
        THEN [w EXCEPT !.assets[h] = Some(moved), !.ret = TRUE]
        ELSE
        LET p == Unwrap(w.players[e])
        IN  IF p.stopped \/ ~p.playing THEN w
            ELSE IF ~IsSome(a.first_frame)
            THEN [w EXCEPT !.players[e] = Some([p EXCEPT !.started = TRUE]),
                           !.assets[h] = Some([moved EXCEPT !.first_frame = Some(0)])]
            ELSE [w EXCEPT !.assets[h] = Some(moved)]

\* One iteration of the loop of advance_playheads; d is time.delta_seconds().
AdvanceOne(w, e, d) ==
    IF ~IsSome(w.assets[w.handles[e]]) THEN w
    ELSE
    LET h  == w.handles[e]
        a  == Unwrap(w.assets[h])
        ps == IF IsSome(w.settings[e]) THEN Unwrap(w.settings[e]) ELSE DefaultSettings
        elapsed_frames == F32(d * ps.speed * Composition(h).frame_rate)
        moved == [a EXCEPT !.rendered_frames = RoundF32(@ + elapsed_frames)]
    IN  IF ~IsSome(w.players[e])
        THEN [w EXCEPT !.assets[h] = Some(moved), !.ret = TRUE]
        ELSE
        LET p  == Unwrap(w.players[e])
            p1 == IF ps.autoplay /\ ~p.started THEN [p EXCEPT !.playing = TRUE] ELSE p
        IN  IF p.stopped THEN w
            ELSE IF ~p1.playing THEN [w EXCEPT !.players[e] = Some(p1)]
            ELSE IF ~IsSome(a.first_frame)
            THEN [w EXCEPT !.players[e] = Some([p1 EXCEPT !.started = TRUE]),
                           !.assets[h] = Some([moved EXCEPT !.first_frame = Some(0)])]
            ELSE [w EXCEPT !.players[e] = Some(p1),
                           !.assets[h] = Some(moved)]

RECURSIVE AdvanceLoop(_, _, _)
AdvanceLoop(w, es, d) ==
    IF es = << >> \/ w.ret THEN w
    ELSE AdvanceLoop(AdvanceOne(w, Head(es), d), Tail(es), d)

\* ---------------------------------------------------------- run_transitions
\* The predicate of one transition rule, as its match arm tests it.
RuleFires(rule, a, comp, ps, is_inside, just_pressed, hov) ==
    CASE rule.kind = "OnAfter" ->
            IsSome(a.first_frame) /\ Unwrap(a.first_frame) >= rule.secs
      [] rule.kind = "OnComplete" ->
            a.rendered_frames >= comp.frames.end - comp.frames.start + ps.intermission
      [] rule.kind = "OnMouseEnter" -> is_inside
      [] rule.kind = "OnMouseClick" -> is_inside /\ just_pressed
      [] rule.kind = "OnMouseLeave" -> hov /\ ~is_inside
      [] rule.kind = "OnShow" -> IsSome(a.first_frame)

\* Mutant of RuleLatch: a firing OnMouseLeave does not clear the latch.
RuleLatchNoClear(rule, fires, is_inside, hov) ==
    CASE rule.kind = "OnMouseEnter" -> IF fires THEN TRUE ELSE hov
      [] rule.kind = "OnMouseLeave" -> IF is_inside THEN TRUE ELSE hov
      [] OTHER -> hov

\* The hovered latch after the arm of `rule` has run.
RuleLatch(rule, fires, is_inside, hov) ==
    CASE rule.kind = "OnMouseEnter" -> IF fires THEN TRUE ELSE hov
      [] rule.kind = "OnMouseLeave" ->
            IF fires THEN FALSE ELSE IF is_inside THEN TRUE ELSE hov
      [] OTHER -> hov

\* Mutant of EvalRules: no `break`, so a later rule that is true overwrites
\* next_state.
RECURSIVE EvalRulesNoBreak(_, _, _, _, _, _)
EvalRulesNoBreak(w, e, rules, i, is_inside, just_pressed) ==
    IF i > Len(rules) THEN w
    ELSE
    LET h     == w.handles[e]
        fires == RuleFires(rules[i], Unwrap(w.assets[h]), Composition(h),
                           Unwrap(w.settings[e]), is_inside, just_pressed,
                           w.hovered)
        w1    == [w EXCEPT !.hovered = RuleLatch(rules[i], fires, is_inside, @)]
        w2    == IF fires
                 THEN [w1 EXCEPT !.players[e] =
                          Some([Unwrap(@) EXCEPT !.next_state = Some(rules[i].state)])]
                 ELSE w1
    IN  EvalRulesNoBreak(w2, e, rules, i + 1, is_inside, just_pressed)

\* The `for transition in controller.state().transitions.iter()` loop from
\* rule i on: a rule that fires sets next_state and breaks.
RECURSIVE EvalRules(_, _, _, _, _, _)
EvalRules(w, e, rules, i, is_inside, just_pressed) ==
    IF i > Len(rules) THEN w
    ELSE
    LET h     == w.handles[e]
        fires == RuleFires(rules[i], Unwrap(w.assets[h]), Composition(h),
                           Unwrap(w.settings[e]), is_inside, just_pressed,
                           w.hovered)
        w1    == [w EXCEPT !.hovered = RuleLatch(rules[i], fires, is_inside, @)]
    IN  IF fires
        THEN [w1 EXCEPT !.players[e] =
                 Some([Unwrap(@) EXCEPT !.next_state = Some(rules[i].state)])]
        ELSE EvalRules(w1, e, rules, i + 1, is_inside, just_pressed)

\* Mutant of RunTransitionsOne: the `if controller.stopped` test is missing.
RunTransitionsOneNoStop(w, e, states, is_inside, just_pressed) ==
    IF ~IsSome(w.players[e]) \/ ~IsSome(w.settings[e]) THEN w
    ELSE IF ~IsSome(w.assets[w.handles[e]])
    THEN Panic(w, "asset not found for state")
    ELSE IF Unwrap(w.players[e]).current_state \notin DOMAIN states
    THEN Panic(w, "state not found")
    ELSE EvalRules(w, e, states[Unwrap(w.players[e]).current_state].transitions,
                   1, is_inside, just_pressed)

\* One iteration of the loop over query_sm in run_transitions.
RunTransitionsOne(w, e, states, is_inside, just_pressed) ==
    IF ~IsSome(w.players[e]) \/ ~IsSome(w.settings[e]) THEN w
    ELSE IF Unwrap(w.players[e]).stopped THEN w
    ELSE IF ~IsSome(w.assets[w.handles[e]])
    THEN Panic(w, "asset not found for state")
    ELSE IF Unwrap(w.players[e]).current_state \notin DOMAIN states
    THEN Panic(w, "state not found")
    ELSE EvalRules(w, e, states[Unwrap(w.players[e]).current_state].transitions,
                   1, is_inside, just_pressed)

RECURSIVE RunTransitionsLoop(_, _, _, _, _)
RunTransitionsLoop(w, es, sc, ins, just_pressed) ==
    IF es = << >> \/ w.ret THEN w
    ELSE RunTransitionsLoop(
             RunTransitionsOne(w, Head(es), StatesOf(sc, Head(es)), ins[Head(es)],
                               just_pressed),
             Tail(es), sc, ins, just_pressed)

\* ---------------------------------------------------------------- set_state
\* VelloAsset::calculate_playhead: the position inside the segment that
\* rendered_frames stands for under the given settings, kept inside
\* [start_frame, end_frame).
CalculatePlayhead(rendered_frames, ps, comp) ==
    LET start_frame == SeekStart(ps, comp)
        end_frame   == SeekEnd(ps, comp)
        length      == end_frame - start_frame
        frame       == IF length = 0 THEN 0 ELSE Rem(rendered_frames, length)
        position    == IF ps.direction = Normal THEN RoundF32(start_frame + frame)
                       ELSE RoundF32(end_frame - frame)
    IN  Max(start_frame, Min(position, Prev(end_frame)))

\* Mutant of ResetFrames: the hard reset leaves the playhead where it is.
ResetFramesKeep(rendered_frames, playhead, comp, reset, current_direction, target_direction) ==
    IF reset THEN rendered_frames
    ELSE IF current_direction = Normal /\ target_direction = Reverse
    THEN Min(RoundF32(comp.frames.end - playhead), Prev(comp.frames.end))
    ELSE IF current_direction = Reverse /\ target_direction = Normal
    THEN playhead
    ELSE Min(Rem(rendered_frames, comp.frames.end - comp.frames.start),
             Prev(comp.frames.end))

\* Mutant of ResetFrames: Normal -> Reverse keeps the playhead instead of
\* mirroring it.
ResetFramesNoMirror(rendered_frames, playhead, comp, reset, current_direction, target_direction) ==
    IF reset THEN 0
    ELSE IF current_direction = Normal /\ target_direction = Reverse
    THEN Min(playhead, Prev(comp.frames.end))
    ELSE IF current_direction = Reverse /\ target_direction = Normal
    THEN playhead
    ELSE Min(Rem(rendered_frames, comp.frames.end - comp.frames.start),
             Prev(comp.frames.end))

\* rendered_frames of the target asset after the `Reset play state` match.
ResetFrames(rendered_frames, playhead, comp, reset, current_direction, target_direction) ==
    IF reset THEN 0
    ELSE IF current_direction = Normal /\ target_direction = Reverse
    THEN Min(RoundF32(comp.frames.end - playhead), Prev(comp.frames.end))
    ELSE IF current_direction = Reverse /\ target_direction = Normal
    THEN playhead
    ELSE Min(Rem(rendered_frames, comp.frames.end - comp.frames.start),
             Prev(comp.frames.end))

\* The commit of `ns` once the target asset was found.
Commit(w, e, states, p1, ns, target_handle) ==
    LET target_state == states[ns]
        cur_handle   == w.handles[e]
        changed_assets == cur_handle # target_handle
        asset == Unwrap(w.assets[target_handle])
        comp  == Composition(target_handle)
        ps    == IF IsSome(w.settings[e]) THEN Unwrap(w.settings[e]) ELSE DefaultSettings
        playhead == CalculatePlayhead(asset.rendered_frames, ps, comp)
        target_direction ==
            IF IsSome(target_state.playback_settings)
            THEN Unwrap(target_state.playback_settings).direction
            ELSE Normal
        reset == \/ states[p1.current_state].reset_playhead_on_transition
                 \/ target_state.reset_playhead_on_start
                 \/ changed_assets
        frames == ResetFrames(asset.rendered_frames, playhead, comp, reset,
                              ps.direction, target_direction)
    IN  [w EXCEPT
            !.handles[e]  = target_handle,
            !.assets[target_handle] =
                Some([first_frame |-> None, rendered_frames |-> frames]),
            !.themes[e]   = IF IsSome(target_state.theme) THEN target_state.theme ELSE @,
            !.settings[e] = IF IsSome(target_state.playback_settings)
                            THEN target_state.playback_settings
                            ELSE Some(DefaultSettings),
            !.players[e]  = Some([p1 EXCEPT !.current_state = ns])]

\* Mutant of SetStateOne: current_state is assigned before the lookup, and an
\* id that is not registered is skipped instead of ending in a panic.
SetStateOneUnchecked(w, e, states) ==
    IF ~IsSome(w.players[e]) THEN w
    ELSE IF ~IsSome(Unwrap(w.players[e]).next_state) THEN w
    ELSE
    LET p  == Unwrap(w.players[e])
        ns == Unwrap(p.next_state)
        p1 == [p EXCEPT !.next_state = None, !.started = FALSE, !.playing = FALSE]
        w1 == [w EXCEPT !.players[e] = Some(p1)]
        target_handle ==
            IF IsSome(states[ns].asset) THEN Unwrap(states[ns].asset) ELSE w.handles[e]
    IN  IF ns \notin DOMAIN states
        THEN [w1 EXCEPT !.players[e] = Some([p1 EXCEPT !.current_state = ns])]
        ELSE IF ~IsSome(w.assets[target_handle])
        THEN [w1 EXCEPT !.players[e] = Some([p1 EXCEPT !.next_state = Some(ns)]),
                        !.ret = TRUE]
        ELSE Commit(w1, e, states, p1, ns, target_handle)

\* One iteration of the loop of set_state.
SetStateOne(w, e, states) ==
    IF ~IsSome(w.players[e]) THEN w
    ELSE IF ~IsSome(Unwrap(w.players[e]).next_state) THEN w
    ELSE
    LET p  == Unwrap(w.players[e])
        ns == Unwrap(p.next_state)
        p1 == [p EXCEPT !.next_state = None, !.started = FALSE, !.playing = FALSE]
        w1 == [w EXCEPT !.players[e] = Some(p1)]
        target_handle ==
            IF IsSome(states[ns].asset) THEN Unwrap(states[ns].asset) ELSE w.handles[e]
    IN  IF ns \notin DOMAIN states THEN Panic(w1, "state not found")
        ELSE IF ~IsSome(w.assets[target_handle])
        THEN [w1 EXCEPT !.players[e] = Some([p1 EXCEPT !.next_state = Some(ns)]),
                        !.ret = TRUE]
        ELSE IF p1.current_state \notin DOMAIN states
        THEN Panic([w1 EXCEPT
                       !.handles[e] = target_handle,
                       !.assets[target_handle] =
                           Some([Unwrap(@) EXCEPT !.first_frame = None])],
                   "state not found")
        ELSE Commit(w1, e, states, p1, ns, target_handle)

RECURSIVE SetStateLoop(_, _, _)
SetStateLoop(w, es, sc) ==
    IF es = << >> \/ w.ret THEN w
    ELSE SetStateLoop(SetStateOne(w, Head(es), StatesOf(sc, Head(es))), Tail(es), sc)

\* -------------------------------------------------------------- the actions
Init ==
    /\ scn \in Scenes
    /\ order \in Orders(scn)
    /\ script \in Scripts(scn)
    /\ players  = [e \in Ents(scn) |-> InitPlayer(scn, e)]
    /\ settings = [e \in Ents(scn) |-> InitSettings(scn, e)]
    /\ handles  = [e \in Ents(scn) |-> InitHandle(scn, e)]
    /\ themes   = [e \in Ents(scn) |-> None]
    /\ assets   = [a \in Assets |-> IF a \in InitiallyLoaded THEN Some(LoadedAsset) ELSE None]
    /\ hovered = FALSE
    /\ pc = "api"
    /\ dt = 0
    /\ view = FALSE
    /\ inside = [e \in Ents(scn) |-> FALSE]
    /\ pressed = FALSE
    /\ sought = [e \in Ents(scn) |-> None]
    /\ fresh = TRUE
    /\ deferred = [e \in Ents(scn) |-> None]
    /\ asked = [e \in Ents(scn) |-> None]
    /\ entered = [e \in Ents(scn) |-> FALSE]
    /\ fatal = "none"

\* The systems write the world back.
Store(w) ==
    /\ players'  = w.players
    /\ settings' = w.settings
    /\ handles'  = w.handles
    /\ themes'   = w.themes
    /\ assets'   = w.assets
    /\ hovered'  = w.hovered
    /\ fatal'    = w.fatal

Running == fatal = "none"

\* rendered_frames of the asset entity e shows, in the world w.
FramesOf(w, e) ==
    IF IsSome(w.assets[w.handles[e]])
    THEN Some(Unwrap(w.assets[w.handles[e]]).rendered_frames)
    ELSE None

\* The entities of the query of apply_player_inputs whose player has a
\* pending seek or intermission.
HasInput(e) ==
    /\ IsSome(players[e]) /\ IsSome(settings[e]) /\ IsSome(assets[handles[e]])
    /\ \/ IsSome(Unwrap(players[e]).pending_seek_frame)
       \/ IsSome(Unwrap(players[e]).pending_intermission)

\* Entity e is the only one whose inputs write its asset in this tick.
AloneOnAsset(e) ==
    \A x \in Ents(scn) \ {e} : handles[x] = handles[e] => ~HasInput(x)

\* The history variable: after the step that leads to world w, the playhead of
\* e is as a seek left it if this step applied that seek, or if it was so
\* before and the step changed neither the playhead nor how e reads it.
Track(w, applying) ==
    sought' = [ e \in Ents(scn) |->
        IF /\ applying /\ HasInput(e) /\ AloneOnAsset(e) /\ w.fatal = "none"
           /\ IsSome(Unwrap(players[e]).pending_seek_frame)
        THEN Unwrap(players[e]).pending_seek_frame
        ELSE IF /\ w.handles[e] = handles[e] /\ w.settings[e] = settings[e]
                /\ FramesOf(w, e) = FramesOf(World, e)
        THEN sought[e] ELSE None ]

\* The entities a query yields before entity e.
RECURSIVE Before(_, _)
Before(es, e) == IF es = << >> \/ Head(es) = e THEN << >> ELSE << Head(es) >> \o Before(Tail(es), e)

\* The history variable `deferred` after set_state.  It becomes Some(s) when
\* this run takes the request for s from entity e and puts it back because the
\* asset of s is not there, and stays so until a run commits s (or the
\* application calls the player again).
Outstanding(e) ==
    LET w == SetStateLoop(World, Before(order, e), scn)
    IN  IF w.ret \/ ~IsSome(w.players[e]) THEN deferred[e]
        ELSE IF ~IsSome(Unwrap(w.players[e]).next_state) THEN deferred[e]
        ELSE LET after == SetStateOne(w, e, StatesOf(scn, e))
                 ns    == Unwrap(w.players[e]).next_state
             IN  IF after.fatal # "none" THEN None
                 ELSE IF IsSome(deferred[e]) /\ (after.ret \/ ns # deferred[e])
                 THEN deferred[e]
                 ELSE IF after.ret THEN ns
                 ELSE None

\* Values of time.delta_seconds().
DtValues == {0, 1}

Player(e) == Unwrap(players[e])

\* The application makes its next API call, on the player of entity e, between
\* two ticks; p is the player after the call.
Call(op, e, p) ==
    /\ Running /\ pc = "api"
    /\ script # << >> /\ Head(script).op = op /\ Head(script).e = e
    /\ players' = [players EXCEPT ![e] = Some(p)]
    /\ script' = Tail(script)
    /\ fresh' = FALSE
    /\ deferred' = [deferred EXCEPT ![e] = None]
    /\ asked' = [asked EXCEPT ![e] = IF op \in {"transition", "reset"}
                                     THEN p.next_state ELSE @]
    /\ UNCHANGED << scn, order, settings, handles, themes, assets, hovered, pc,
                    dt, view, inside, pressed, sought, entered, fatal >>

Transition(e) ==
    Call("transition", e, [Player(e) EXCEPT !.next_state = Some(Head(script).arg)])

Reset(e) ==
    Call("reset", e, [Player(e) EXCEPT !.next_state = Some(Player(e).initial_state),
                                       !.pending_seek_frame = Some(F32_MIN)])

Seek(e) ==
    Call("seek", e, [Player(e) EXCEPT !.pending_seek_frame = Some(Head(script).arg)])

SetIntermission(e) ==
    Call("set_intermission", e,
         [Player(e) EXCEPT !.pending_intermission = Some(Head(script).arg)])

SetSpeed(e) ==
    Call("set_speed", e, [Player(e) EXCEPT !.pending_speed = Some(Head(script).arg)])

PlayerPlay(p) == [p EXCEPT !.playing = TRUE, !.stopped = FALSE]

PlayerPause(p) == [p EXCEPT !.playing = FALSE]

Play(e) == Call("play", e, PlayerPlay(Player(e)))

Pause(e) == Call("pause", e, PlayerPause(Player(e)))

Stop(e) == Call("stop", e, [Player(e) EXCEPT !.stopped = TRUE])

TogglePlay(e) ==
    Call("toggle_play", e,
         IF Player(e).stopped \/ ~Player(e).playing
         THEN PlayerPlay(Player(e)) ELSE PlayerPause(Player(e)))

\* Steps of the four systems.
InputsStep == pc = "api" /\ pc' = "advance"
AdvanceStep == pc = "advance" /\ pc' = "transitions"
TransitionsStep == pc = "transitions" /\ pc' = "set_state"
SetStateStep == pc = "set_state" /\ pc' = "api"

\* The hovered latch as entity e finds it: as the entities before e in the
\* query left it.
LatchSeenBy(e) ==
    RunTransitionsLoop(World, Before(order, e), scn, inside', pressed').hovered

\* Indices of the rules of e's current state whose predicate is true in the
\* tick that is being evaluated.
TrueRules(e) ==
    LET rules == StatesOf(scn, e)[Player(e).current_state].transitions
    IN  { i \in 1..Len(rules) :
            RuleFires(rules[i], Unwrap(assets[handles[e]]), Composition(handles[e]),
                      Unwrap(settings[e]), inside'[e], pressed', LatchSeenBy(e)) }

\* run_transitions evaluates the rules of entity e in this step.
Evaluated(e) ==
    /\ TransitionsStep /\ view' /\ fatal' = "none"
    /\ IsSome(players[e]) /\ IsSome(settings[e])
    /\ ~Player(e).stopped
    /\ IsSome(assets[handles[e]])

\* The rule that fires for entity e in this run of run_transitions is its
\* OnMouseLeave.
LeaveFires(e) ==
    /\ Evaluated(e)
    /\ TrueRules(e) # {}
    /\ LET rules == StatesOf(scn, e)[Player(e).current_state].transitions
           first == CHOOSE i \in TrueRules(e) : \A j \in TrueRules(e) : i <= j
       IN  rules[first].kind = "OnMouseLeave"

\* The asset server finishes loading an asset.
LoadAsset ==
    /\ Running /\ pc = "api"
    /\ \E a \in Assets :
        /\ ~IsSome(assets[a])
        /\ assets' = [assets EXCEPT ![a] = Some(LoadedAsset)]
    /\ UNCHANGED << scn, order, players, settings, handles, themes, hovered, pc,
                    dt, view, inside, pressed, script, sought, fresh, deferred, asked,
                    entered, fatal >>

\* Every stored first_frame instant is `step` seconds older.
Aged(as, step) ==
    [ a \in Assets |->
        IF IsSome(as[a]) /\ IsSome(Unwrap(as[a]).first_frame)
        THEN Some([Unwrap(as[a]) EXCEPT !.first_frame = Some(Unwrap(@) + step)])
        ELSE as[a] ]

Oldest(as) ==
    LET ages == { Unwrap(Unwrap(as[a]).first_frame) :
                    a \in { b \in Assets : IsSome(as[b]) /\ IsSome(Unwrap(as[b]).first_frame) } }
    IN  IF ages = {} THEN 0 ELSE CHOOSE m \in ages : \A x \in ages : x <= m

\* First system of the tick; wall time may have passed since the last tick.
ApplyPlayerInputs ==
    /\ Running /\ pc = "api"
    /\ \E step \in {0, 1} :
        /\ Oldest(assets) + step <= MaxTime
        /\ LET w == ApplyInputsLoop([World EXCEPT !.assets = Aged(assets, step)], order)
           IN  Store(w) /\ Track(w, TRUE)
    /\ pc' = "advance"
    /\ UNCHANGED << scn, order, dt, view, inside, pressed, script, fresh, deferred,
                    asked, entered >>

AdvancePlayheads ==
    /\ Running /\ pc = "advance"
    /\ \E d \in DtValues :
        LET w == AdvanceLoop(World, order, d)
        IN  /\ d = 0 \/ \A a \in Assets :
                   IsSome(w.assets[a]) => Unwrap(w.assets[a]).rendered_frames <= F32(MaxFrames)
            /\ dt' = d
            /\ Store(w) /\ Track(w, FALSE)
    /\ pc' = "transitions"
    /\ UNCHANGED << scn, order, view, inside, pressed, script, fresh, deferred,
                    asked, entered >>

\* Without a window or camera the system returns at once; the pointer tests
\* are then not made.
RunTransitions ==
    /\ Running /\ pc = "transitions"
    /\ \E v \in BOOLEAN, ins \in [Ents(scn) -> BOOLEAN], b \in BOOLEAN :
        /\ ~v => (b = FALSE /\ \A e \in Ents(scn) : ~ins[e])
        /\ view' = v /\ inside' = ins /\ pressed' = b
        /\ LET w == IF v THEN RunTransitionsLoop(World, order, scn, ins, b) ELSE World
           IN  Store(w) /\ Track(w, FALSE)
    /\ pc' = "set_state"
    /\ dt' = 0
    /\ entered' = [e \in Ents(scn) |->
                      IF LeaveFires(e) THEN FALSE ELSE entered[e] \/ inside'[e]]
    /\ UNCHANGED << scn, order, script, fresh, deferred, asked >>

\* Last system of the tick; the tick's inputs are gone when it ends.
SetState ==
    /\ Running /\ pc = "set_state"
    /\ LET w == SetStateLoop(World, order, scn)
       IN  Store(w) /\ Track(w, FALSE)
    /\ fresh' = FALSE
    /\ deferred' = [e \in Ents(scn) |-> Outstanding(e)]
    /\ asked' = [e \in Ents(scn) |-> None]
    /\ pc' = "api"
    /\ view' = FALSE /\ pressed' = FALSE
    /\ inside' = [e \in Ents(scn) |-> FALSE]
    /\ UNCHANGED << scn, order, dt, script, entered >>

Controlled == { e \in Ents(scn) : IsSome(players[e]) }

Next ==
    \/ \E e \in Controlled : Transition(e)
    \/ \E e \in Controlled : Reset(e)
    \/ \E e \in Controlled : Seek(e)
    \/ \E e \in Controlled : SetIntermission(e)
    \/ \E e \in Controlled : SetSpeed(e)
    \/ \E e \in Controlled : TogglePlay(e)
    \/ \E e \in Controlled : Play(e)
    \/ \E e \in Controlled : Pause(e)
    \/ \E e \in Controlled : Stop(e)
    \/ LoadAsset
    \/ ApplyPlayerInputs
    \/ AdvancePlayheads
    \/ RunTransitions
    \/ SetState

Spec == Init /\ [][Next]_vars

\* The app is running and the schedule moves on from the system at `from`.
\* Each system is enabled whenever it is its turn, and it alone makes this
\* change of pc, so this is the step of that system.
Scheduled(from, to) == Running /\ pc = from /\ pc' = to

\* Bevy runs the PostUpdate schedule in every frame for as long as the app
\* lives: a system whose turn it is does run.
FairSpec ==
    /\ Spec
    /\ WF_pc(Scheduled("api", "advance"))
    /\ WF_pc(Scheduled("advance", "transitions"))
    /\ WF_pc(Scheduled("transitions", "set_state"))
    /\ WF_pc(Scheduled("set_state", "api"))

TypeOK ==
    /\ scn \in Scenes
    /\ order \in Orders(scn)
    /\ pc \in {"api", "advance", "transitions", "set_state"}
    /\ hovered \in BOOLEAN
    /\ fresh \in BOOLEAN

\* --------------------------------------------------------------- the claims
Frames(e) == Unwrap(assets[handles[e]]).rendered_frames
FramesAfter(e) == Unwrap(assets'[handles[e]]).rendered_frames

\* Entity e has a pending seek, and no pending intermission, that this run of
\* apply_player_inputs applies, and no other entity's inputs write its asset.
SeeksAlone(e) ==
    /\ InputsStep /\ fatal' = "none"
    /\ HasInput(e) /\ AloneOnAsset(e)
    /\ IsSome(Player(e).pending_seek_frame)
    /\ ~IsSome(Player(e).pending_intermission)

\* C1 (as claimed): a seek to frame f, followed on the next tick by a second
\* seek to the same f with the playhead still where the first one left it,
\* leaves rendered_frames where the first seek put it.
C1_SeekTwiceSameFrames ==
    [][ \A e \in Ents(scn) :
          (SeeksAlone(e) /\ sought[e] = Player(e).pending_seek_frame)
              => FramesAfter(e) = Frames(e) ]_vars

\* C2 (as claimed): a seek never changes the loop index: the quotient of
\* rendered_frames by the seek's loop length is the same before and after.
C2_SeekKeepsLoopIndex ==
    [][ \A e \in Ents(scn) :
          SeeksAlone(e) =>
              LET length == SeekLength(Unwrap(settings[e]), Composition(handles[e]))
              IN  TruncDiv(FramesAfter(e), length) = TruncDiv(Frames(e), length) ]_vars

\* C3: when several rules of the current state are true in one tick,
\* next_state becomes the destination of the one declared first; when none
\* is true next_state is left alone.
C3_TransitionPriority ==
    [][ \A e \in Ents(scn) :
          Evaluated(e) =>
              LET rules == StatesOf(scn, e)[Player(e).current_state].transitions
                  first == CHOOSE i \in TrueRules(e) : \A j \in TrueRules(e) : i <= j
              IN  Unwrap(players'[e]).next_state =
                      IF TrueRules(e) = {} THEN Player(e).next_state
                      ELSE Some(rules[first].state) ]_vars

\* Two rules were true in one tick and the first one declared won.
C3_Witness ==
    /\ scn = "menu" /\ pc = "set_state" /\ view /\ inside[1]
    /\ Player(1).current_state = "a"
    /\ IsSome(Unwrap(assets[1]).first_frame)
    /\ Player(1).next_state = Some("b")

\* C4: run_transitions leaves next_state of a stopped player unchanged.
C4_StoppedRunsNoTransitions ==
    [][ TransitionsStep =>
          \A e \in Ents(scn) :
              (IsSome(players[e]) /\ Player(e).stopped)
                  => Unwrap(players'[e]).next_state = Player(e).next_state ]_vars

\* A stopped player in "idle" with the pointer inside: OnMouseEnter would be
\* true, and next_state is not its destination.
C4_Witness ==
    /\ scn = "hover" /\ pc = "set_state" /\ view /\ inside[1]
    /\ Player(1).stopped
    /\ Player(1).current_state = "idle"
    /\ Player(1).next_state # Some("hover")

\* set_state finds a pending next_state of entity e whose target asset is not
\* in Assets<VelloAsset>.
Deferred(e) ==
    /\ SetStateStep
    /\ IsSome(players[e]) /\ IsSome(Player(e).next_state)
    /\ Unwrap(Player(e).next_state) \in DOMAIN StatesOf(scn, e)
    /\ LET target == StatesOf(scn, e)[Unwrap(Player(e).next_state)]
       IN  ~IsSome(assets[IF IsSome(target.asset) THEN Unwrap(target.asset)
                          ELSE handles[e]])

Sharers(e) == { x \in Ents(scn) : handles[x] = handles[e] }

\* C5 (as claimed): when the target asset is not ready the stage leaves the
\* controller (next_state, current_state, started, playing), the bound handle
\* and the playhead exactly as they were.
C5_NotReadyLeavesUntouched ==
    [][ \A e \in Ents(scn) :
          Deferred(e) =>
              /\ players'[e] = players[e]
              /\ handles'[e] = handles[e]
              /\ Sharers(e) = {e} => assets'[handles[e]] = assets[handles[e]] ]_vars

\* What advance_playheads' conditions let entity e add to its asset.
Plays(e) ==
    \/ ~IsSome(players[e])
    \/ /\ ~Player(e).stopped
       /\ \/ Player(e).playing
          \/ /\ ~Player(e).started
             /\ (IF IsSome(settings[e]) THEN Unwrap(settings[e]) ELSE DefaultSettings).autoplay

ElapsedFrames(e) ==
    F32(dt' * (IF IsSome(settings[e]) THEN Unwrap(settings[e]) ELSE DefaultSettings).speed
            * Composition(handles[e]).frame_rate)

\* C6 (as claimed): in one run of advance_playheads every loaded asset that
\* some entity plays gets the elapsed frames of one such entity, once; an
\* asset nobody plays keeps its playhead.
C6_AdvanceOncePerAsset ==
    [][ AdvanceStep =>
          \A a \in Assets :
              IsSome(assets[a]) =>
                  LET before == Unwrap(assets[a]).rendered_frames
                      moved  == { RoundF32(before + ElapsedFrames(e)) :
                                    e \in { x \in Ents(scn) : handles[x] = a /\ Plays(x) } }
                      after  == Unwrap(assets'[a]).rendered_frames
                  IN  IF moved = {} THEN after = before ELSE after \in moved ]_vars

\* advance_playheads gets to entity e: no entity before it in the query made
\* the system return.
Reached(e) ==
    \A x \in { y \in Ents(scn) : y \in { order[i] : i \in 1..Len(Before(order, e)) } } :
        IsSome(players[x]) \/ ~IsSome(assets[handles[x]])

\* The asset of entity e is controlled by e alone and the system gets to e.
AdvancesAlone(e) ==
    /\ AdvanceStep
    /\ IsSome(players[e]) /\ IsSome(assets[handles[e]])
    /\ Sharers(e) = {e} /\ Reached(e)

SettingsOf(e) == IF IsSome(settings[e]) THEN Unwrap(settings[e]) ELSE DefaultSettings

\* C7 (as claimed): the playhead of a controlled asset moves by
\* dt * speed * frame_rate iff the player is not stopped, is playing, and
\* autoplay is set or the player has started; otherwise it stays.
C7_AdvanceIffPlayingAndArmed ==
    [][ \A e \in Ents(scn) :
          AdvancesAlone(e) =>
              FramesAfter(e) = RoundF32(Frames(e) +
                  (IF /\ ~Player(e).stopped /\ Player(e).playing
                      /\ (SettingsOf(e).autoplay \/ Player(e).started)
                   THEN ElapsedFrames(e) ELSE 0)) ]_vars

\* C7 (amended): the playhead moves by dt * speed * frame_rate iff the player
\* is not stopped and is playing or armed by autoplay (autoplay set and not
\* yet started); otherwise it stays.
C7_AdvanceIffPlayingOrAutoplay ==
    [][ \A e \in Ents(scn) :
          AdvancesAlone(e) =>
              FramesAfter(e) = RoundF32(Frames(e) +
                  (IF /\ ~Player(e).stopped
                      /\ \/ Player(e).playing
                         \/ SettingsOf(e).autoplay /\ ~Player(e).started
                   THEN ElapsedFrames(e) ELSE 0)) ]_vars

\* A paused player that autoplay re-armed has moved, and so has a player
\* without autoplay that play() started.
C7_Witness ==
    /\ pc = "transitions" /\ dt = 1
    /\ scn = "menu" /\ Player(1).current_state = "c"
    /\ ~SettingsOf(1).autoplay /\ Player(1).playing /\ ~Player(1).stopped
    /\ Frames(1) > 0

\* C8 (as claimed): while a player is stopped no system changes its
\* current_state or the playhead of its asset.
C8_StopFreezes ==
    [][ \A e \in Ents(scn) :
          (pc # "api" /\ IsSome(players[e]) /\ Player(e).stopped
                      /\ IsSome(assets[handles[e]]))
              => /\ Unwrap(players'[e]).current_state = Player(e).current_state
                 /\ assets'[handles[e]] # None
                 /\ FramesAfter(e) = Frames(e) ]_vars

\* C9 (as claimed): the tick in which OnMouseEnter fired ends with next_state
\* = hover still pending and current_state = idle; the commit is made by the
\* next tick.
C9_HoverPendingAfterTick ==
    [][ ( /\ scn = "hover" /\ SetStateStep /\ view /\ inside[1]
          /\ Player(1).current_state = "idle"
          /\ Player(1).next_state = Some("hover") )
            => /\ Unwrap(players'[1]).next_state = Some("hover")
               /\ Unwrap(players'[1]).current_state = "idle" ]_vars

\* C9 (amended): for the single player idle/hover, not stopped: a tick with
\* the pointer inside sets next_state = hover and the latch, and set_state of
\* the same tick commits it (current_state = hover, next_state = None, latch
\* still true); a tick with the pointer outside then sets next_state = idle
\* and clears the latch, and set_state of that tick commits idle.
C9_HoverScenario ==
    [][ scn = "hover" =>
          /\ ( /\ Evaluated(1) /\ Player(1).current_state = "idle" /\ inside'[1] )
                => /\ Unwrap(players'[1]).next_state = Some("hover")
                   /\ hovered'
          /\ ( /\ SetStateStep /\ Player(1).next_state = Some("hover") )
                => /\ Unwrap(players'[1]).current_state = "hover"
                   /\ Unwrap(players'[1]).next_state = None
                   /\ hovered' = hovered
          /\ ( /\ Evaluated(1) /\ Player(1).current_state = "hover"
               /\ hovered /\ ~inside'[1] )
                => /\ Unwrap(players'[1]).next_state = Some("idle")
                   /\ ~hovered'
          /\ ( /\ SetStateStep /\ Player(1).next_state = Some("idle") )
                => /\ Unwrap(players'[1]).current_state = "idle"
                   /\ Unwrap(players'[1]).next_state = None
                   /\ hovered' = hovered ]_vars

\* The player was committed into hover and the pointer has just left: idle
\* is pending for this tick's set_state and the latch is cleared.
C9_Witness ==
    /\ scn = "hover" /\ pc = "set_state" /\ view /\ ~inside[1]
    /\ Player(1).current_state = "hover"
    /\ Player(1).next_state = Some("idle")
    /\ ~hovered

\* C10: the current state of a player whose initial state is registered is
\* always a registered state, so state() and state_mut() find it.
C10_CurrentStateRegistered ==
    \A e \in Ents(scn) :
        ( /\ fatal = "none" /\ IsSome(players[e])
          /\ Player(e).initial_state \in DOMAIN StatesOf(scn, e) )
            => Player(e).current_state \in DOMAIN StatesOf(scn, e)

\* A commit has moved a player out of its initial state.
C10_Witness ==
    /\ pc = "api" /\ fatal = "none"
    /\ \E e \in Ents(scn) :
        /\ IsSome(players[e])
        /\ Player(e).current_state # Player(e).initial_state
        /\ Player(e).next_state = None

\* The states a player can be asked to enter.
TargetHandle(e, s) ==
    IF IsSome(StatesOf(scn, e)[s].asset) THEN Unwrap(StatesOf(scn, e)[s].asset)
    ELSE handles[e]

\* The PlaybackSettings component a commit into state s inserts.
SettingsFor(e, s) ==
    IF IsSome(StatesOf(scn, e)[s].playback_settings)
    THEN StatesOf(scn, e)[s].playback_settings
    ELSE Some(DefaultSettings)

\* C11 (as claimed): with no API call made and the asset of the initial state
\* ready, set_state of the very first tick commits the initial state: after it
\* current_state = initial_state, next_state = None and the entity carries the
\* initial state's playback settings, or the defaults.
C11_FirstTickCommitsInitial ==
    [][ \A e \in Ents(scn) :
          ( /\ SetStateStep /\ fresh /\ IsSome(players[e])
            /\ Player(e).initial_state \in DOMAIN StatesOf(scn, e)
            /\ IsSome(assets[TargetHandle(e, Player(e).initial_state)]) )
              => /\ Unwrap(players'[e]).current_state = Player(e).initial_state
                 /\ Unwrap(players'[e]).next_state = None
                 /\ settings'[e] = SettingsFor(e, Player(e).initial_state) ]_vars

\* Entity e has a pending intermission, and no pending seek, that this run of
\* apply_player_inputs applies, and no other entity's inputs write its asset.
IntermissionAlone(e) ==
    /\ InputsStep /\ fatal' = "none"
    /\ HasInput(e) /\ AloneOnAsset(e)
    /\ IsSome(Player(e).pending_intermission)
    /\ ~IsSome(Player(e).pending_seek_frame)

CompLength(e) ==
    Composition(handles[e]).frames.end - Composition(handles[e]).frames.start

\* loops_completed as the specification words it.
LoopsCompleted(rendered_frames, length, old) ==
    IF rendered_frames > length + old THEN rendered_frames \div (length + old)
    ELSE IF rendered_frames > length THEN 1
    ELSE 0

\* C12: a pending intermission applied outside an intermission window makes
\* rendered_frames max(0, rendered_frames + (new - old) * loops_completed) and
\* the settings' intermission the new value.
C12_IntermissionReanchors ==
    [][ \A e \in Ents(scn) :
          ( /\ IntermissionAlone(e)
            /\ ~InIntermission(Frames(e), CompLength(e), Unwrap(settings[e]).intermission) )
              => LET old == Unwrap(settings[e]).intermission
                     new == Unwrap(Player(e).pending_intermission)
                 IN  /\ FramesAfter(e) =
                            Max(0, RoundF32(Frames(e) + (new - old)
                                     * LoopsCompleted(Frames(e), CompLength(e), old)))
                     /\ Unwrap(settings'[e]).intermission = new ]_vars

\* Two loops of 3 frames were completed when the intermission went from 0 to
\* 2: the playhead was moved from 6 to 10, further than advancing takes it.
C12_Witness ==
    /\ scn = "hover" /\ pc = "advance"
    /\ Unwrap(settings[1]).intermission = F32(2)
    /\ Player(1).pending_intermission = None
    /\ Len(script) = 2
    /\ Frames(1) = F32(10)

\* The request set_state finds pending on entity e.
Requested(e) == Unwrap(Player(e).next_state)

\* A request for a registered state is pending on entity e.
Pending(e) ==
    /\ IsSome(players[e]) /\ IsSome(Player(e).next_state)
    /\ Requested(e) \in DOMAIN StatesOf(scn, e)

\* set_state commits the request of entity e in this step: its loop gets to e
\* and finds the target asset.
Commits(e) ==
    /\ SetStateStep /\ fatal' = "none"
    /\ Pending(e)
    /\ IsSome(assets[TargetHandle(e, Requested(e))])
    /\ ~SetStateLoop(World, Before(order, e), scn).ret

\* ... and no other entity's commit writes the same asset in this step.
CommitsAlone(e) ==
    /\ Commits(e)
    /\ \A x \in Ents(scn) \ {e} :
          Pending(x) => TargetHandle(x, Requested(x)) # TargetHandle(e, Requested(e))

\* One of the three conditions of the hard reset holds for the commit of e.
HardReset(e) ==
    \/ StatesOf(scn, e)[Player(e).current_state].reset_playhead_on_transition
    \/ StatesOf(scn, e)[Requested(e)].reset_playhead_on_start
    \/ TargetHandle(e, Requested(e)) # handles[e]

\* The direction of the state entity e is asked to enter.
TargetDirection(e) ==
    Unwrap(SettingsFor(e, Requested(e))).direction

\* C13: a commit with no reset flag and an unchanged asset, from direction
\* Normal into a state of direction Reverse, makes rendered_frames
\* min(frame_end - old_playhead, frame_end - epsilon), old_playhead being the
\* playhead-bounds value under the old settings.
C13_FlipMirrorsPlayhead ==
    [][ \A e \in Ents(scn) :
          ( /\ CommitsAlone(e) /\ ~HardReset(e)
            /\ SettingsOf(e).direction = Normal
            /\ TargetDirection(e) = Reverse )
              => LET comp == Composition(handles[e])
                     old_playhead == CalculatePlayhead(Frames(e), SettingsOf(e), comp)
                 IN  FramesAfter(e) =
                         Min(RoundF32(comp.frames.end - old_playhead),
                             Prev(comp.frames.end)) ]_vars

\* State b (Reverse) has just been entered from a (Normal) on the same asset
\* of frames 0..3 with the old playhead at 2: the playhead is at 3 - 2 = 1.
C13_Witness ==
    /\ scn = "menu" /\ pc = "api" /\ fatal = "none"
    /\ Player(1).current_state = "b" /\ Player(1).next_state = None
    /\ handles[1] = 1
    /\ ~IsSome(Unwrap(assets[1]).first_frame)
    /\ Frames(1) = F32(1)

\* C14 (as claimed): applying a pending intermission never changes the loop
\* the player is in: floor(rendered_frames / (length + intermission)) is the
\* same with the new playhead and intermission as with the old ones, inside
\* an intermission window or not.
C14_IntermissionKeepsLoop ==
    [][ \A e \in Ents(scn) :
          IntermissionAlone(e) =>
              LET old == Unwrap(settings[e]).intermission
                  new == Unwrap(Player(e).pending_intermission)
              IN  FramesAfter(e) \div (CompLength(e) + new)
                      = Frames(e) \div (CompLength(e) + old) ]_vars

\* C15 (as claimed): set_state consumes what run_transitions decided in the
\* same tick: when a tick ends, next_state of every player is None unless the
\* asset of the pending state was not ready in that tick.
C15_TickConsumesNextState ==
    [][ ( SetStateStep /\ fatal' = "none" ) =>
          \A e \in Ents(scn) :
              ( /\ Pending(e)
                /\ IsSome(assets[TargetHandle(e, Requested(e))]) )
                  => Unwrap(players'[e]).next_state = None ]_vars

\* The request set_state deferred for entity e is still outstanding, its
\* asset is ready by now, and the application makes no further API call.
Owed(e) ==
    /\ e \in Ents(scn) /\ fatal = "none" /\ script = << >>
    /\ IsSome(deferred[e])
    /\ IsSome(assets[TargetHandle(e, Unwrap(deferred[e]))])

\* C16 (as claimed): a transition to s that set_state deferred because the
\* asset of s was not ready is, once that asset is ready and with no further
\* API call, eventually committed (current_state = s, next_state = None).
C16_DeferredEventuallyCommitted ==
    /\ Owed(1) ~> ~Owed(1)
    /\ Owed(2) ~> ~Owed(2)

\* C17: a commit with reset_playhead_on_transition on the outgoing state, or
\* reset_playhead_on_start on the incoming state, or a change of the bound
\* asset, leaves rendered_frames of the target asset at 0 whatever the
\* directions; only when none of the three holds is the playhead remapped by
\* the directions (for equal directions: wrapped into the composition and
\* kept below its end).
C17_HardResetOnCommit ==
    [][ \A e \in Ents(scn) :
          CommitsAlone(e) =>
              LET comp == Composition(handles[e])
                  after == Unwrap(assets'[TargetHandle(e, Requested(e))]).rendered_frames
              IN  /\ HardReset(e) => after = 0
                  /\ (~HardReset(e) /\ SettingsOf(e).direction = TargetDirection(e))
                        => after = Min(Frames(e) % (comp.frames.end - comp.frames.start),
                                       Prev(comp.frames.end)) ]_vars

\* "away" (reset_playhead_on_transition) has just been left for "clip" on the
\* same asset; only OnComplete leads there, so the playhead had reached the
\* end of the loop, and it is back at 0.
C17_Witness ==
    /\ scn = "pair" /\ pc = "api" /\ fatal = "none"
    /\ handles[1] = 2
    /\ Player(1).current_state = "clip" /\ Player(1).next_state = None
    /\ ~IsSome(Unwrap(assets[2]).first_frame)
    /\ Frames(1) = 0

\* Entity e has an intermission, a seek and a speed pending, this run of
\* apply_player_inputs applies them, and no other entity's inputs write its
\* asset.
AllThreePending(e) ==
    /\ InputsStep /\ fatal' = "none"
    /\ HasInput(e) /\ AloneOnAsset(e)
    /\ IsSome(Player(e).pending_intermission)
    /\ IsSome(Player(e).pending_seek_frame)
    /\ IsSome(Player(e).pending_speed)

\* C18: with set_intermission, seek and set_speed pending for one tick the
\* intermission is applied first, then the seek, then the speed: the seek's
\* loop length and loop count use the new intermission and the shifted
\* playhead, the playhead reads neither speed, and the three slots end empty.
C18_InputOrder ==
    [][ \A e \in Ents(scn) :
          AllThreePending(e) =>
              LET ps      == Unwrap(settings[e])
                  comp    == Composition(handles[e])
                  new     == Unwrap(Player(e).pending_intermission)
                  shifted == IF InIntermission(Frames(e), CompLength(e), ps.intermission)
                             THEN Prev(LoopsCompleted(Frames(e), CompLength(e), ps.intermission)
                                          * (CompLength(e) + new))
                             ELSE Max(0, RoundF32(Frames(e) + (new - ps.intermission)
                                      * LoopsCompleted(Frames(e), CompLength(e), ps.intermission)))
                  length  == SeekEnd(ps, comp) - SeekStart(ps, comp) + new
                  loops   == shifted \div length
              IN  /\ FramesAfter(e) =
                        RoundF32(loops * length
                            + SeekValue(Unwrap(Player(e).pending_seek_frame), ps, comp))
                  /\ settings'[e] =
                        Some([ps EXCEPT !.intermission = new,
                                        !.speed = Unwrap(Player(e).pending_speed)])
                  /\ Unwrap(players'[e]).pending_intermission = None
                  /\ Unwrap(players'[e]).pending_seek_frame = None
                  /\ Unwrap(players'[e]).pending_speed = None ]_vars

\* Nothing has advanced since the entity got its default settings (when it was
\* spawned or by the last commit), so intermission 2 and speed 2 were written
\* by this run of apply_player_inputs, and so was the seek that `sought`
\* records.
C18_Witness ==
    /\ scn = "hover" /\ pc = "advance" /\ fatal = "none"
    /\ ~IsSome(Unwrap(assets[1]).first_frame)
    /\ Unwrap(settings[1]).intermission = F32(2)
    /\ Unwrap(settings[1]).speed = 2
    /\ sought[1] = Some(F32(1))
    /\ Player(1).pending_intermission = None
    /\ Player(1).pending_seek_frame = None
    /\ Player(1).pending_speed = None

\* C19 (as claimed): whenever run_transitions evaluates a player that is not
\* stopped with the pointer inside it, the hovered latch is true after the
\* stage, whichever rule fires and wherever an OnMouseLeave rule sits.  Stated
\* for the stages that evaluate one player only, where no other player's
\* rules touch the latch.
C19_InsideSetsLatch ==
    [][ \A e \in Ents(scn) :
          ( /\ Evaluated(e) /\ inside'[e]
            /\ \A x \in Ents(scn) \ {e} : ~Evaluated(x) )
              => hovered' ]_vars

\* Entity e has a pending seek, and no pending intermission, that this run of
\* apply_player_inputs takes, and no other entity has inputs for its asset.
SeekTaken(e) ==
    /\ InputsStep
    /\ HasInput(e) /\ AloneOnAsset(e)
    /\ IsSome(Player(e).pending_seek_frame)
    /\ ~IsSome(Player(e).pending_intermission)

\* C20 (as claimed): applying a pending seek ends without a fatal error for
\* every requested frame and every segment range, inverted or outside the
\* composition included, and the frame it uses lies inside
\* [max(segment.start, frame_start), min(segment.end, frame_end)).
C20_SeekClampsDefensively ==
    [][ \A e \in Ents(scn) :
          SeekTaken(e) =>
              /\ fatal' = "none"
              /\ LET ps      == Unwrap(settings[e])
                     comp    == Composition(handles[e])
                     length  == SeekLength(ps, comp)
                     value   == FramesAfter(e) - TruncDiv(Frames(e), length) * length
                     bounded == IF ps.direction = Normal THEN value
                                ELSE SeekEnd(ps, comp) - value
                 IN  /\ SeekStart(ps, comp) <= bounded
                     /\ bounded < SeekEnd(ps, comp) ]_vars

\* C21 (as claimed): a state asked for with transition(id) or reset() between
\* two ticks, on a player that is not stopped, is the state set_state commits
\* in the next tick when its asset is ready: run_transitions of that tick does
\* not put the destination of a rule in its place.
C21_RequestNotLost ==
    [][ \A e \in Ents(scn) :
          ( /\ SetStateStep /\ fatal' = "none"
            /\ IsSome(players[e]) /\ ~Player(e).stopped
            /\ IsSome(asked[e])
            /\ Unwrap(asked[e]) \in DOMAIN StatesOf(scn, e)
            /\ IsSome(assets[TargetHandle(e, Unwrap(asked[e]))])
            /\ ~SetStateLoop(World, Before(order, e), scn).ret )
              => /\ Player(e).next_state = asked[e]
                 /\ Unwrap(players'[e]).current_state = Unwrap(asked[e])
                 /\ Unwrap(players'[e]).next_state = None ]_vars

\* C22 (as claimed): in set_state a player whose target asset is not ready
\* does not keep another player from its commit: every other player with a
\* pending request and a ready target asset is committed in the same run,
\* whatever the order of the query.
C22_CommitsIndependent ==
    [][ \A e \in Ents(scn) : \A x \in Ents(scn) \ {e} :
          ( /\ SetStateStep /\ fatal' = "none"
            /\ Deferred(x)
            /\ Pending(e)
            /\ IsSome(assets[TargetHandle(e, Requested(e))]) )
              => /\ Unwrap(players'[e]).current_state = Requested(e)
                 /\ Unwrap(players'[e]).next_state = None ]_vars

\* C23 (as claimed): the OnMouseLeave rule of a player fires only if the
\* pointer was inside that player's own bounds on an earlier tick since its
\* OnMouseLeave last fired; the pointer being inside another player does not
\* enable it.
C23_LeaveNeedsOwnEntry ==
    [][ \A e \in Ents(scn) : LeaveFires(e) => entered[e] ]_vars

====
